---------------------------- MODULE Spec2Model ----------------------------
(***************************************************************************)
(* Model of src/src/commands.ts: the command layer (createFunction,        *)
(* createFunctionApp) and the nightly deployment verification flow         *)
(* (copyFunctionUrl / validateFunctionUrl, a bounded retry loop built on   *)
(* p-retry).                                                               *)
(*                                                                         *)
(* One behaviour is one invocation of one of the three operations; `cmd'   *)
(* says which.  Every `await' of the source is a step boundary.            *)
(*                                                                         *)
(* Text is modelled as a sequence of tokens; String.includes(t) is token   *)
(* membership.  An error is a record: its message, the attempt and the     *)
(* step that raised it (which stand for the identity of the error object)  *)
(* and its origin.  Thrown values are Error objects that are not           *)
(* TypeErrors (p-retry stops at once on a TypeError).                      *)
(***************************************************************************)
EXTENDS Integers, Sequences, FiniteSets, TLC

VARIABLES
    cmd,              \* the operation this behaviour runs
    pc,               \* position in the operation
    thrown,           \* the error the operation rejected with (NoError: none)
    \* ---- validateFunctionUrl / p-retry
    loopState,        \* "Attempting" | "Success" | "Aborted"
    currentAttempt,   \* p-retry's 1-based attempt number
    log,              \* ext.outputChannel.appendLog lines
    refreshCalls,     \* calls of ext.tree.refresh()
    copyCalls,        \* calls of copyFunctionUrl
    errors,           \* the retry operation's _errors
    timeouts,         \* the retry operation's remaining _timeouts
    delays,           \* the setTimeout delays used so far
    clipboard,        \* vscode.env.clipboard
    clipboardReads,   \* calls of clipboard.readText()
    functionUrl,      \* the text read from the clipboard
    requestsSent,     \* calls of requestUtils.sendRequest
    response,         \* the body sendRequest returned
    lastRaised,       \* the error the latest failed attempt raised
    \* ---- createFunction / createFunctionApp
    folders,          \* vscode.workspace.workspaceFolders
    fs0,              \* the file system when the action starts
    fs,               \* the file system
    functionAppPath,
    createNewFolder,
    tasksJsonExists,
    launchJsonExists,
    missingFiles,
    answer,           \* the answer to the warning message
    template,
    name,
    prompts,          \* the prompts shown, in order
    cliCalls,         \* the calls of the FunctionsCli that were made
    cliDone,          \* how many of them returned successfully
    written           \* the files written with util.writeToFile

flowVars == <<loopState, currentAttempt, log, refreshCalls, copyCalls, errors,
              timeouts, delays, clipboard, clipboardReads, functionUrl,
              requestsSent, response, lastRaised>>

cmdVars == <<folders, fs0, fs, functionAppPath, createNewFolder, tasksJsonExists,
             launchJsonExists, missingFiles, answer, template, name, prompts,
             cliCalls, cliDone, written>>

vars == <<cmd, pc, thrown, flowVars, cmdVars>>

----------------------------------------------------------------------------
(* Text *)

FunctionName == "funcAB12"
AppName == "appX"

Includes(text, token) == \E i \in DOMAIN text : text[i] = token

MsgRace == <<"Not all", "inputs", "were used:", FunctionName>>
MsgRaceBoth == <<"Not all", "inputs", "were used:", AppName, FunctionName>>
MsgInputsOnly == <<"Not all", "inputs", "were used:", AppName>>
MsgNameOnly == <<FunctionName, "is not ready">>
MsgNetwork == <<"network timeout">>
MsgJson == <<"{message:", "network timeout", "}">>

\* what the copy step (clipboard.writeText, runWithInputs, the command) can throw
CopyErrorMessages ==
    {MsgRace, MsgRaceBoth, MsgInputsOnly, MsgNameOnly, MsgNetwork, MsgJson}

\* what ext.tree.refresh() can throw
RefreshErrorMessages == {MsgNetwork, MsgNameOnly}

NoError == [message |-> <<>>, attempt |-> 0, step |-> "none", origin |-> "none"]

\* parseError(error).message: a message that is a JSON object is replaced by
\* that object's message; any other message is kept
parseErrorMessage(error) ==
    LET m == error.message IN
    IF Len(m) >= 2 /\ m[1] = "{message:" /\ m[Len(m)] = "}"
    THEN SubSeq(m, 2, Len(m) - 1)
    ELSE m

\* line 268: message.includes('inputs') && message.includes(functionName)
IsRetryable(message) ==
    Includes(message, "inputs") /\ Includes(message, FunctionName)

----------------------------------------------------------------------------
(* p-retry / retry *)

retries == 4
minTimeout == 5000
factor == 2

RECURSIVE Pow(_, _)
Pow(b, e) == IF e = 0 THEN 1 ELSE b * Pow(b, e - 1)

\* retry.createTimeout(attempt, opts) mutated: a constant delay
createTimeoutFixed(attempt) == minTimeout

\* retry.createTimeout(attempt, opts) with randomize false and maxTimeout
\* Infinity: minTimeout * factor^attempt
createTimeout(attempt) == minTimeout * Pow(factor, attempt)

\* retry.timeouts(opts) mutated: one timeout too many
TimeoutsOneMore == [i \in 1..(retries + 1) |-> createTimeout(i - 1)]

\* retry.timeouts(opts): one timeout per retry, ascending
Timeouts == [i \in 1..retries |-> createTimeout(i - 1)]

CountSame(errs, i) ==
    Cardinality({j \in 1..i : errs[j].message = errs[i].message})

RECURSIVE MainErrorScan(_, _, _, _)
MainErrorScan(errs, i, mainErr, mainErrCount) ==
    IF i > Len(errs) THEN mainErr
    ELSE IF CountSame(errs, i) >= mainErrCount
         THEN MainErrorScan(errs, i + 1, errs[i], CountSame(errs, i))
         ELSE MainErrorScan(errs, i + 1, mainErr, mainErrCount)

\* RetryOperation.mainError(): the error whose message occurred most often,
\* the latest one among equals
mainError(errs) == MainErrorScan(errs, 1, NoError, 0)

\* if (currentAttempt !== 1), mutated
NeedsRefreshAlways(attempt) == TRUE

\* if (currentAttempt !== 1)
NeedsRefresh(attempt) == attempt # 1

----------------------------------------------------------------------------
(* Values *)

StaleUrl == "https://old.example/api/previous"
ResolvedUrl == "https://appX.azurewebsites.net/api/funcAB12"
OtherUrl == "https://appX.azurewebsites.net/api/other"

\* writer: 0 before the flow, otherwise the attempt that wrote the slot;
\* by: "clear" for writeText(''), "copy" for the copy command
ClipboardBefore ==
    {[text |-> "", writer |-> 0, by |-> "before"],
     [text |-> StaleUrl, writer |-> 0, by |-> "before"]}

NoResponse == <<"(no response)">>

Responses == {<<"Hello", "World">>, <<"Hello">>, <<"World">>, <<>>}

MsgAssert == <<"Expected function response to include Hello and World">>
MsgRequest == <<"request failed">>

FlowIdle ==
    /\ loopState = "Attempting"
    /\ currentAttempt = 1
    /\ log = <<>>
    /\ refreshCalls = 0
    /\ copyCalls = 0
    /\ errors = <<>>
    /\ timeouts = Timeouts
    /\ delays = <<>>
    /\ clipboardReads = 0
    /\ functionUrl = ""
    /\ requestsSent = 0
    /\ response = NoResponse
    /\ lastRaised = NoError

CmdIdle ==
    /\ functionAppPath = -1
    /\ createNewFolder = FALSE
    /\ tasksJsonExists = FALSE
    /\ launchJsonExists = FALSE
    /\ missingFiles = <<>>
    /\ answer = "none"
    /\ template = "none"
    /\ name = "none"
    /\ prompts = <<>>
    /\ cliCalls = <<>>
    /\ cliDone = 0
    /\ written = <<>>

InitValidate ==
    /\ cmd = "validateFunctionUrl"
    /\ pc = "attempt"
    /\ thrown = NoError
    /\ FlowIdle
    /\ clipboard \in ClipboardBefore
    /\ CmdIdle
    /\ folders = <<>>
    /\ fs0 = {}
    /\ fs = {}

----------------------------------------------------------------------------
(* validateFunctionUrl *)

\* the promise returned by retry() resolves
Resolve ==
    /\ loopState' = "Success"
    /\ pc' = "read"
    /\ UNCHANGED <<thrown, errors, timeouts, delays, lastRaised>>

\* the abort mutated: the loop's rejection is swallowed and the flow goes on
AbortSwallowed(error, message) ==
    /\ lastRaised' = error
    /\ timeouts' = <<>>
    /\ thrown' = [message |-> message, attempt |-> error.attempt,
                  step |-> error.step, origin |-> "AbortError.originalError"]
    /\ loopState' = "Aborted"
    /\ pc' = "read"
    /\ UNCHANGED <<errors, delays>>

\* catch (error) of p-retry, error instanceof AbortError:
\* operation.stop(); reject(error.originalError)
Abort(error, message) ==
    /\ lastRaised' = error
    /\ timeouts' = <<>>
    /\ thrown' = [message |-> message, attempt |-> error.attempt,
                  step |-> error.step, origin |-> "AbortError.originalError"]
    /\ loopState' = "Aborted"
    /\ pc' = "failed"
    /\ UNCHANGED <<errors, delays>>

\* catch (error) of p-retry, any other error:
\* if (!operation.retry(error)) reject(operation.mainError())
Retry(error) ==
    /\ lastRaised' = error
    /\ errors' = Append(errors, error)
    /\ IF timeouts = <<>>
       THEN /\ thrown' = mainError(errors')
            /\ loopState' = "Aborted"
            /\ pc' = "failed"
            /\ UNCHANGED <<timeouts, delays>>
       ELSE /\ delays' = Append(delays, Head(timeouts))
            /\ timeouts' = Tail(timeouts)
            /\ pc' = "wait"
            /\ UNCHANGED <<thrown, loopState>>

\* lines 258-261: the log line and the test that guards the refresh
AttemptStart ==
    /\ cmd = "validateFunctionUrl"
    /\ pc = "attempt"
    /\ log' = Append(log, <<currentAttempt, retries + 1>>)
    /\ pc' = IF NeedsRefresh(currentAttempt) THEN "refresh" ELSE "copy"
    /\ UNCHANGED <<cmd, thrown, loopState, currentAttempt, refreshCalls,
                   copyCalls, errors, timeouts, delays, clipboard,
                   clipboardReads, functionUrl, requestsSent, response,
                   lastRaised, cmdVars>>

\* line 260: await ext.tree.refresh(), outside the try block: what it throws
\* reaches p-retry as it is
TreeRefresh ==
    /\ cmd = "validateFunctionUrl"
    /\ pc = "refresh"
    /\ refreshCalls' = refreshCalls + 1
    /\ \/ /\ pc' = "copy"
          /\ UNCHANGED <<thrown, loopState, errors, timeouts, delays, lastRaised>>
       \/ \E m \in RefreshErrorMessages :
             Retry([message |-> m, attempt |-> currentAttempt,
                    step |-> "refresh", origin |-> "thrown"])
    /\ UNCHANGED <<cmd, currentAttempt, log, copyCalls, clipboard,
                   clipboardReads, functionUrl, requestsSent, response, cmdVars>>

\* lines 265-273: the classification of what copyFunctionUrl threw
Classify(error) ==
    LET message == parseErrorMessage(error) IN
    IF IsRetryable(message)
    THEN Retry(error)
    ELSE Abort(error, message)

\* line 247 left out: the slot keeps what it held
NotCleared(attempt) == clipboard

\* line 247: await vscode.env.clipboard.writeText('')
Cleared(attempt) == [text |-> "", writer |-> attempt, by |-> "clear"]

\* lines 248-250: the slot after the copy command ran; wrote = "" when the
\* command wrote nothing
AfterCommand(slot, wrote, attempt) ==
    IF wrote = "" THEN slot
    ELSE [text |-> wrote, writer |-> attempt, by |-> "copy"]

\* lines 263-273 with copyFunctionUrl, lines 241-251
CopyFunctionUrl ==
    /\ cmd = "validateFunctionUrl"
    /\ pc = "copy"
    /\ copyCalls' = copyCalls + 1
    /\ \/ \* clipboard.writeText('') rejects
          /\ UNCHANGED clipboard
          /\ Classify([message |-> MsgNetwork, attempt |-> currentAttempt,
                       step |-> "copy", origin |-> "thrown"])
       \/ \* the clipboard is cleared, then the command runs
          /\ \E wrote \in {"", ResolvedUrl, OtherUrl} :
                clipboard' = AfterCommand(Cleared(currentAttempt), wrote,
                                          currentAttempt)
          /\ \/ Resolve
             \/ \E m \in CopyErrorMessages :
                   Classify([message |-> m, attempt |-> currentAttempt,
                             step |-> "copy", origin |-> "thrown"])
    /\ UNCHANGED <<cmd, currentAttempt, log, refreshCalls, clipboardReads,
                   functionUrl, requestsSent, response, cmdVars>>

\* the retry operation's timer fires: the next attempt starts
TimerFires ==
    /\ cmd = "validateFunctionUrl"
    /\ pc = "wait"
    /\ currentAttempt' = currentAttempt + 1
    /\ pc' = "attempt"
    /\ UNCHANGED <<cmd, thrown, loopState, log, refreshCalls, copyCalls, errors,
                   timeouts, delays, clipboard, clipboardReads, functionUrl,
                   requestsSent, response, lastRaised, cmdVars>>

\* lines 278-280: readText, then getDefaultRequest
ReadClipboard ==
    /\ cmd = "validateFunctionUrl"
    /\ pc = "read"
    /\ clipboardReads' = clipboardReads + 1
    /\ functionUrl' = clipboard.text
    /\ \/ /\ pc' = "request"
          /\ UNCHANGED thrown
       \/ /\ pc' = "failed"
          /\ thrown' = [message |-> MsgRequest, attempt |-> 0,
                        step |-> "getDefaultRequest", origin |-> "thrown"]
    /\ UNCHANGED <<cmd, loopState, currentAttempt, log, refreshCalls, copyCalls,
                   errors, timeouts, delays, clipboard, requestsSent, response,
                   lastRaised, cmdVars>>

\* assert.ok(response.includes('Hello') && response.includes('World'))
ResponseOk(body) == Includes(body, "Hello") /\ Includes(body, "World")

\* lines 281-284: the request and the assertion on its response
SendRequest ==
    /\ cmd = "validateFunctionUrl"
    /\ pc = "request"
    /\ requestsSent' = requestsSent + 1
    /\ \/ /\ pc' = "failed"
          /\ thrown' = [message |-> MsgRequest, attempt |-> 0,
                        step |-> "sendRequest", origin |-> "thrown"]
          /\ UNCHANGED response
       \/ \E body \in Responses :
             /\ response' = body
             /\ IF ResponseOk(body)
                THEN pc' = "done" /\ UNCHANGED thrown
                ELSE /\ pc' = "failed"
                     /\ thrown' = [message |-> MsgAssert, attempt |-> 0,
                                   step |-> "assert", origin |-> "thrown"]
    /\ UNCHANGED <<cmd, loopState, currentAttempt, log, refreshCalls, copyCalls,
                   errors, timeouts, delays, clipboard, clipboardReads,
                   functionUrl, lastRaised, cmdVars>>

----------------------------------------------------------------------------
(* The workspace and the file system *)

MaxFolders == 2

\* a path is a number: DialogFolder is the folder util.showFolderDialog()
\* returns, 1..MaxFolders are the workspace folders
DialogFolder == 0

HostJson == "host.json"
LocalSettingsJson == "local.settings.json"
LaunchJson == ".vscode/launch.json"
TasksJson == ".vscode/tasks.json"

_expectedFunctionAppFiles == <<HostJson, LocalSettingsJson, LaunchJson>>

_yes == "Yes"
_no == "No"

Templates == {"BlobTrigger", "HttpTrigger", "QueueTrigger", "TimerTrigger"}

\* what the user can type in the input box
Names == {"", "fn1", "fn2"}

WorkspaceChoices == {[i \in 1..n |-> i] : n \in 0..MaxFolders}

Exists(files, path, file) == <<path, file>> \in files

CommandError(what, step) ==
    [message |-> <<what>>, attempt |-> 0, step |-> step, origin |-> "thrown"]

\* getMissingFunctionAppFiles mutated: launch.json is not looked for
getMissingFunctionAppFilesShort(files, rootPath) ==
    SelectSeq(<<HostJson, LocalSettingsJson>>,
              LAMBDA file : ~Exists(files, rootPath, file))

\* getMissingFunctionAppFiles, lines 157-159
getMissingFunctionAppFiles(files, rootPath) ==
    SelectSeq(_expectedFunctionAppFiles,
              LAMBDA file : ~Exists(files, rootPath, file))

\* validateTemplateName, lines 161-167: "ok" stands for undefined
validateTemplateName(files, rootPath, s) ==
    IF s = "" THEN "The template name cannot be empty."
    ELSE IF Exists(files, rootPath, s) THEN "A folder with the name already exists."
    ELSE "ok"

\* line 90, mutated: || for &&
ShouldWriteScaffoldEither(tasksExists, launchExists) ==
    ~tasksExists \/ ~launchExists

\* line 90: if (!tasksJsonExists && !launchJsonExists)
ShouldWriteScaffold(tasksExists, launchExists) ==
    ~tasksExists /\ ~launchExists

\* functionsCli.createFunctionApp, when it succeeds: the project files are in
\* the folder afterwards, launch.json among them or not
FuncInit(files, path) ==
    {files \cup {<<path, HostJson>>, <<path, LocalSettingsJson>>} \cup extra :
        extra \in {{}, {<<path, LaunchJson>>}}}

\* functionsCli.createFunction, when it succeeds: the function's folder exists
FuncNew(files, path, fname) == files \cup {<<path, fname>>}

\* util.showInputBox with validateTemplateName as its validator: what it can
\* return; a dismissed box throws UserCancelledError instead
InputBoxResults(files, path) ==
    {s \in Names : validateTemplateName(files, path, s) = "ok"}

InitCreateFunctionApp ==
    /\ cmd = "createFunctionApp"
    /\ pc = "pickFolder"
    /\ thrown = NoError
    /\ FlowIdle
    /\ clipboard = [text |-> "", writer |-> 0, by |-> "before"]
    /\ CmdIdle
    /\ folders \in WorkspaceChoices
    /\ fs0 \in SUBSET ((0..Len(folders)) \X {TasksJson, LaunchJson})
    /\ fs = fs0

InitCreateFunction ==
    /\ cmd = "createFunction"
    /\ pc = "start"
    /\ thrown = NoError
    /\ FlowIdle
    /\ clipboard = [text |-> "", writer |-> 0, by |-> "before"]
    /\ CmdIdle
    /\ folders \in WorkspaceChoices
    /\ fs0 \in SUBSET ((1..Len(folders)) \X {HostJson, LocalSettingsJson, LaunchJson, "fn1"})
    /\ fs = fs0

----------------------------------------------------------------------------
(* createFunctionApp, lines 70-131 *)

\* lines 82-85, after the folder is known
AppFolderKnown(path) ==
    /\ functionAppPath' = path
    /\ tasksJsonExists' = Exists(fs, path, TasksJson)
    /\ launchJsonExists' = Exists(fs, path, LaunchJson)
    /\ pc' = "cli"
    /\ UNCHANGED thrown

\* lines 71-80: the quick pick of the folder
AppPickFolder ==
    /\ cmd = "createFunctionApp"
    /\ pc = "pickFolder"
    /\ prompts' = Append(prompts, "folder")
    /\ \/ /\ pc' = "failed"
          /\ thrown' = CommandError("UserCancelledError", "showQuickPick")
          /\ UNCHANGED <<functionAppPath, createNewFolder, tasksJsonExists,
                         launchJsonExists>>
       \/ /\ createNewFolder' = TRUE
          /\ pc' = "folderDialog"
          /\ UNCHANGED <<thrown, functionAppPath, tasksJsonExists, launchJsonExists>>
       \/ \E i \in DOMAIN folders :
             /\ createNewFolder' = FALSE
             /\ AppFolderKnown(folders[i])
    /\ UNCHANGED <<cmd, flowVars, folders, fs0, fs, missingFiles, answer,
                   template, name, cliCalls, cliDone, written>>

\* line 80: util.showFolderDialog()
AppFolderDialog ==
    /\ cmd = "createFunctionApp"
    /\ pc = "folderDialog"
    /\ prompts' = Append(prompts, "folderDialog")
    /\ \/ /\ pc' = "failed"
          /\ thrown' = CommandError("UserCancelledError", "showFolderDialog")
          /\ UNCHANGED <<functionAppPath, tasksJsonExists, launchJsonExists>>
       \/ AppFolderKnown(DialogFolder)
    /\ UNCHANGED <<cmd, flowVars, folders, fs0, fs, createNewFolder,
                   missingFiles, answer, template, name, cliCalls, cliDone,
                   written>>

AppAfterScaffold == IF createNewFolder THEN "openFolder" ELSE "done"

\* lines 88-90: the CLI call, then the test that guards the two writes
AppCli ==
    /\ cmd = "createFunctionApp"
    /\ pc = "cli"
    /\ cliCalls' = Append(cliCalls, [fn |-> "createFunctionApp",
                                     path |-> functionAppPath,
                                     template |-> "none", name |-> "none"])
    /\ \/ /\ pc' = "failed"
          /\ thrown' = CommandError("CliError", "createFunctionApp")
          /\ UNCHANGED <<fs, cliDone>>
       \/ /\ fs' \in FuncInit(fs, functionAppPath)
          /\ cliDone' = cliDone + 1
          /\ pc' = IF ShouldWriteScaffold(tasksJsonExists, launchJsonExists)
                   THEN "writeTasks" ELSE AppAfterScaffold
          /\ UNCHANGED thrown
    /\ UNCHANGED <<cmd, flowVars, folders, fs0, functionAppPath, createNewFolder,
                   tasksJsonExists, launchJsonExists, missingFiles, answer,
                   template, name, prompts, written>>

\* util.writeToFile(path, text)
WriteToFile(file, nextPc) ==
    \/ /\ pc' = "failed"
       /\ thrown' = CommandError("WriteError", file)
       /\ UNCHANGED <<fs, written>>
    \/ /\ fs' = fs \cup {<<functionAppPath, file>>}
       /\ written' = Append(written, file)
       /\ pc' = nextPc
       /\ UNCHANGED thrown

\* line 109
AppWriteTasks ==
    /\ cmd = "createFunctionApp"
    /\ pc = "writeTasks"
    /\ WriteToFile(TasksJson, "writeLaunch")
    /\ UNCHANGED <<cmd, flowVars, folders, fs0, functionAppPath, createNewFolder,
                   tasksJsonExists, launchJsonExists, missingFiles, answer,
                   template, name, prompts, cliCalls, cliDone>>

\* line 124
AppWriteLaunch ==
    /\ cmd = "createFunctionApp"
    /\ pc = "writeLaunch"
    /\ WriteToFile(LaunchJson, AppAfterScaffold)
    /\ UNCHANGED <<cmd, flowVars, folders, fs0, functionAppPath, createNewFolder,
                   tasksJsonExists, launchJsonExists, missingFiles, answer,
                   template, name, prompts, cliCalls, cliDone>>

\* lines 127-130
AppOpenFolder ==
    /\ cmd = "createFunctionApp"
    /\ pc = "openFolder"
    /\ \/ pc' = "done" /\ UNCHANGED thrown
       \/ /\ pc' = "failed"
          /\ thrown' = CommandError("CommandError", "vscode.openFolder")
    /\ UNCHANGED <<cmd, flowVars, cmdVars>>

----------------------------------------------------------------------------
(* createFunction, lines 30-68 *)

\* lines 43-44, after the folder is known
FnFolderKnown(path) ==
    /\ functionAppPath' = path
    /\ missingFiles' = getMissingFunctionAppFiles(fs, path)
    /\ pc' = IF Len(missingFiles') # 0 THEN "warn" ELSE "pickTemplate"
    /\ UNCHANGED thrown

\* lines 32-41, up to the first await
FnStart ==
    /\ cmd = "createFunction"
    /\ pc = "start"
    /\ IF Len(folders) = 0
       THEN /\ pc' = "failed"
            /\ thrown' = CommandError("NoWorkspaceError", "workspaceFolders")
            /\ UNCHANGED <<functionAppPath, missingFiles>>
       ELSE IF Len(folders) = 1
       THEN FnFolderKnown(folders[1])
       ELSE /\ pc' = "fnPickFolder"
            /\ UNCHANGED <<thrown, functionAppPath, missingFiles>>
    /\ UNCHANGED <<cmd, flowVars, folders, fs0, fs, createNewFolder,
                   tasksJsonExists, launchJsonExists, answer, template, name,
                   prompts, cliCalls, cliDone, written>>

\* lines 38-40: the quick pick among several workspace folders
FnPickFolder ==
    /\ cmd = "createFunction"
    /\ pc = "fnPickFolder"
    /\ prompts' = Append(prompts, "folder")
    /\ \/ /\ pc' = "failed"
          /\ thrown' = CommandError("UserCancelledError", "showQuickPick")
          /\ UNCHANGED <<functionAppPath, missingFiles>>
       \/ \E i \in DOMAIN folders : FnFolderKnown(folders[i])
    /\ UNCHANGED <<cmd, flowVars, folders, fs0, fs, createNewFolder,
                   tasksJsonExists, launchJsonExists, answer, template, name,
                   cliCalls, cliDone, written>>

\* line 46: if (result === _yes)
Accepted(result) == result = _yes

\* lines 45-50: the warning about the missing files
FnWarn ==
    /\ cmd = "createFunction"
    /\ pc = "warn"
    /\ prompts' = Append(prompts, "addMissingFiles")
    /\ \E result \in {_yes, _no, "undefined"} :
          /\ answer' = result
          /\ IF Accepted(result)
             THEN pc' = "fnCliApp" /\ UNCHANGED thrown
             ELSE /\ pc' = "failed"
                  /\ thrown' = CommandError("UserCancelledError", "showWarningMessage")
    /\ UNCHANGED <<cmd, flowVars, folders, fs0, fs, functionAppPath,
                   createNewFolder, tasksJsonExists, launchJsonExists,
                   missingFiles, template, name, cliCalls, cliDone, written>>

\* line 47: functionsCli.createFunctionApp
FnCliApp ==
    /\ cmd = "createFunction"
    /\ pc = "fnCliApp"
    /\ cliCalls' = Append(cliCalls, [fn |-> "createFunctionApp",
                                     path |-> functionAppPath,
                                     template |-> "none", name |-> "none"])
    /\ \/ /\ pc' = "failed"
          /\ thrown' = CommandError("CliError", "createFunctionApp")
          /\ UNCHANGED <<fs, cliDone>>
       \/ /\ fs' \in FuncInit(fs, functionAppPath)
          /\ cliDone' = cliDone + 1
          /\ pc' = "pickTemplate"
          /\ UNCHANGED thrown
    /\ UNCHANGED <<cmd, flowVars, folders, fs0, functionAppPath, createNewFolder,
                   tasksJsonExists, launchJsonExists, missingFiles, answer,
                   template, name, prompts, written>>

\* lines 55-61: the quick pick of the template
FnPickTemplate ==
    /\ cmd = "createFunction"
    /\ pc = "pickTemplate"
    /\ prompts' = Append(prompts, "template")
    /\ \/ /\ pc' = "failed"
          /\ thrown' = CommandError("UserCancelledError", "showQuickPick")
          /\ UNCHANGED template
       \/ /\ template' \in Templates
          /\ pc' = "inputName"
          /\ UNCHANGED thrown
    /\ UNCHANGED <<cmd, flowVars, folders, fs0, fs, functionAppPath,
                   createNewFolder, tasksJsonExists, launchJsonExists,
                   missingFiles, answer, name, cliCalls, cliDone, written>>

\* line 63: the input box accepts only what validateTemplateName lets through
FnInputName ==
    /\ cmd = "createFunction"
    /\ pc = "inputName"
    /\ prompts' = Append(prompts, "name")
    /\ \/ /\ pc' = "failed"
          /\ thrown' = CommandError("UserCancelledError", "showInputBox")
          /\ UNCHANGED name
       \/ \E s \in InputBoxResults(fs, functionAppPath) :
             /\ name' = s
             /\ pc' = "fnCli"
             /\ UNCHANGED thrown
    /\ UNCHANGED <<cmd, flowVars, folders, fs0, fs, functionAppPath,
                   createNewFolder, tasksJsonExists, launchJsonExists,
                   missingFiles, answer, template, cliCalls, cliDone, written>>

\* line 65: functionsCli.createFunction
FnCli ==
    /\ cmd = "createFunction"
    /\ pc = "fnCli"
    /\ cliCalls' = Append(cliCalls, [fn |-> "createFunction",
                                     path |-> functionAppPath,
                                     template |-> template, name |-> name])
    /\ \/ /\ pc' = "failed"
          /\ thrown' = CommandError("CliError", "createFunction")
          /\ UNCHANGED <<fs, cliDone>>
       \/ /\ fs' = FuncNew(fs, functionAppPath, name)
          /\ cliDone' = cliDone + 1
          /\ pc' = "openDocument"
          /\ UNCHANGED thrown
    /\ UNCHANGED <<cmd, flowVars, folders, fs0, functionAppPath, createNewFolder,
                   tasksJsonExists, launchJsonExists, missingFiles, answer,
                   template, name, prompts, written>>

\* lines 66-67
FnOpenDocument ==
    /\ cmd = "createFunction"
    /\ pc = "openDocument"
    /\ \/ pc' = "done" /\ UNCHANGED thrown
       \/ /\ pc' = "failed"
          /\ thrown' = CommandError("OpenError", "openTextDocument")
    /\ UNCHANGED <<cmd, flowVars, cmdVars>>

----------------------------------------------------------------------------

Init == InitValidate \/ InitCreateFunctionApp \/ InitCreateFunction

Next ==
    \/ AttemptStart
    \/ TreeRefresh
    \/ CopyFunctionUrl
    \/ TimerFires
    \/ ReadClipboard
    \/ SendRequest
    \/ AppPickFolder
    \/ AppFolderDialog
    \/ AppCli
    \/ AppWriteTasks
    \/ AppWriteLaunch
    \/ AppOpenFolder
    \/ FnStart
    \/ FnPickFolder
    \/ FnWarn
    \/ FnCliApp
    \/ FnPickTemplate
    \/ FnInputName
    \/ FnCli
    \/ FnOpenDocument

Spec == Init /\ [][Next]_vars

FairSpec == Spec /\ WF_vars(Next)

----------------------------------------------------------------------------
(* Properties of validateFunctionUrl *)

Validating == cmd = "validateFunctionUrl"

AllRetryable(errs) ==
    \A i \in DOMAIN errs :
        Includes(errs[i].message, "inputs") /\ Includes(errs[i].message, FunctionName)

\* C1: when the loop succeeds after k failures that all carried a retryable
\* message, it has run exactly k+1 attempts (one log line each) and made
\* exactly k calls of tree refresh, with k <= retries; when every one of the
\* failures came from the copy step, copyFunctionUrl was called k+1 times.
C1_AttemptsAndRefreshes ==
    (Validating /\ loopState = "Success" /\ AllRetryable(errors)) =>
        /\ Len(errors) <= retries
        /\ currentAttempt = Len(errors) + 1
        /\ Len(log) = Len(errors) + 1
        /\ refreshCalls = Len(errors)
        /\ ((\A i \in DOMAIN errors : errors[i].step = "copy")
               => copyCalls = Len(errors) + 1)

\* C1 witness: four retryable failures of the copy step, then a success on
\* the fifth attempt, after four refreshes.
C1_Witness ==
    /\ Validating
    /\ loopState = "Success"
    /\ Len(errors) = retries
    /\ AllRetryable(errors)
    /\ \A i \in DOMAIN errors : errors[i].step = "copy"
    /\ Len(log) = retries + 1
    /\ copyCalls = retries + 1
    /\ refreshCalls = retries

\* C2 (as claimed): an error whose message lacks 'inputs' or the function
\* name, raised by the refresh or by the copy of attempt k, ends the flow on
\* attempt k: no wait for a further attempt follows it.
C2_AnyOtherErrorAborts ==
    Validating =>
        \A i \in DOMAIN errors :
            ~(Includes(errors[i].message, "inputs")
                /\ Includes(errors[i].message, FunctionName))
            => (currentAttempt = errors[i].attempt /\ pc = "failed")

\* C3 (as claimed): when all retries+1 attempts failed with a retryable error
\* the flow fails and the error it surfaces is the one the last attempt raised.
C3_SurfacesLastError ==
    (Validating /\ Len(errors) = retries + 1 /\ AllRetryable(errors)) =>
        /\ pc = "failed"
        /\ loopState = "Aborted"
        /\ thrown = errors[retries + 1]

\* C4: the attempt counter stays within 1..retries+1; the loop ends only by
\* a successful attempt, by a non-retryable failure of the current attempt,
\* or by the failure of attempt retries+1; and under fair scheduling it
\* always ends.
C4_BoundedAndTerminates ==
    /\ [](Validating =>
            /\ currentAttempt \in 1..(retries + 1)
            /\ Len(log) <= retries + 1
            /\ (loopState = "Success" =>
                    /\ Len(errors) = currentAttempt - 1
                    /\ copyCalls >= 1
                    /\ thrown.origin # "AbortError.originalError")
            /\ (loopState = "Aborted" =>
                    \/ /\ thrown.origin = "AbortError.originalError"
                       /\ thrown.attempt = currentAttempt
                       /\ ~(Includes(thrown.message, "inputs")
                              /\ Includes(thrown.message, FunctionName))
                    \/ /\ Len(errors) = retries + 1
                       /\ currentAttempt = retries + 1))
    /\ (Validating => <>(loopState \in {"Success", "Aborted"}))

\* C4 witness: the loop ended by exhaustion, on attempt retries+1.
C4_Witness ==
    /\ Validating
    /\ loopState = "Aborted"
    /\ currentAttempt = retries + 1
    /\ Len(errors) = retries + 1

\* C5: at most one clipboard read and one HTTP request per flow, both only
\* after the retry loop succeeded; an aborted loop is followed by neither; a
\* response without 'Hello' or without 'World' fails the flow; and once the
\* request was sent there is no further refresh, copy or request.
C5_OneRequestAfterSuccess ==
    /\ [](Validating =>
            /\ clipboardReads <= 1
            /\ requestsSent <= 1
            /\ (clipboardReads = 1 => loopState = "Success" /\ copyCalls >= 1)
            /\ (requestsSent = 1 => loopState = "Success" /\ clipboardReads = 1)
            /\ (loopState = "Aborted" =>
                    pc = "failed" /\ clipboardReads = 0 /\ requestsSent = 0)
            /\ (requestsSent = 1 => pc \in {"done", "failed"})
            /\ ((requestsSent = 1
                   /\ ~(Includes(response, "Hello") /\ Includes(response, "World")))
                  => pc = "failed")
            /\ (pc = "done" => requestsSent = 1))
    /\ [][(Validating /\ requestsSent = 1) =>
             /\ requestsSent' = 1
             /\ refreshCalls' = refreshCalls
             /\ copyCalls' = copyCalls
             /\ clipboardReads' = clipboardReads]_vars

\* C5 witness: the request was sent, its response lacked 'World', and the
\* flow failed after a retried attempt.
C5_Witness ==
    /\ Validating
    /\ requestsSent = 1
    /\ response = <<"Hello">>
    /\ pc = "failed"
    /\ Len(errors) >= 1

\* C6 (as claimed): whenever the retry loop fails, the message of the error
\* it surfaces is the message of the error raised by the attempt that ended
\* the loop.
C6_MessagePreserved ==
    (Validating /\ loopState = "Aborted") =>
        thrown.message = lastRaised.message

C10_ClipboardFromFinalAttempt ==
    /\ [](Validating =>
            /\ clipboardReads <= 1
            /\ (clipboardReads = 1 =>
                    /\ functionUrl = clipboard.text
                    /\ clipboard.writer = currentAttempt
                    /\ \/ clipboard.by = "clear" /\ functionUrl = ""
                       \/ clipboard.by = "copy" /\ functionUrl # "")
            /\ (loopState = "Success" => clipboard.writer = currentAttempt))
    /\ [][refreshCalls' # refreshCalls => clipboard' = clipboard]_vars
    /\ [][clipboard' # clipboard => copyCalls' = copyCalls + 1]_vars
    /\ [][copyCalls' # copyCalls =>
             \/ clipboard'.writer = currentAttempt
             \/ clipboard' = clipboard /\ loopState' # "Success"]_vars

\* C10 witness: an earlier attempt's copy step failed, and the read after
\* the final attempt, whose command wrote nothing, is empty.
C10_Witness ==
    /\ Validating
    /\ clipboardReads = 1
    /\ functionUrl = ""
    /\ currentAttempt >= 2
    /\ \E i \in DOMAIN errors : errors[i].step = "copy"

----------------------------------------------------------------------------
(* Properties of createFunctionApp and createFunction *)

\* C7: createFunctionApp writes tasks.json and launch.json only when neither
\* was in the target folder before the action and the CLI call has returned;
\* it writes tasks.json first; when it completes and neither pre-existed,
\* both were written; when either pre-existed, or the CLI call failed,
\* nothing was written.
C7_ScaffoldOnlyIfNeitherExisted ==
    cmd = "createFunctionApp" =>
        LET neither == /\ <<functionAppPath, TasksJson>> \notin fs0
                       /\ <<functionAppPath, LaunchJson>> \notin fs0
        IN  /\ written \in {<<>>, <<TasksJson>>, <<TasksJson, LaunchJson>>}
            /\ (written # <<>> =>
                    /\ functionAppPath # -1
                    /\ neither
                    /\ cliDone = 1
                    /\ cliCalls[1].fn = "createFunctionApp")
            /\ ((pc \in {"openFolder", "done"} /\ neither)
                    => written = <<TasksJson, LaunchJson>>)
            /\ ((functionAppPath # -1 /\ ~neither) => written = <<>>)
            /\ (cliDone = 0 => written = <<>>)

\* C7 witness: the action completed in a folder that had neither file, the
\* CLI had created launch.json itself, and both files were written.
C7_Witness ==
    /\ cmd = "createFunctionApp"
    /\ pc = "done"
    /\ written = <<TasksJson, LaunchJson>>
    /\ <<functionAppPath, LaunchJson>> \notin fs0

\* C8: functionsCli.createFunction is called only when a workspace folder
\* was open, no expected function-app file was missing or the user answered
\* Yes and functionsCli.createFunctionApp returned first, and a template and
\* a non-empty name that is no existing folder were given.  Without a
\* workspace folder the action fails with NoWorkspaceError before any prompt
\* or CLI call; any answer but Yes fails it with UserCancelledError and no
\* CLI call.
C8_CreateFunctionPreconditions ==
    cmd = "createFunction" =>
        /\ (Len(folders) = 0 =>
                /\ prompts = <<>>
                /\ cliCalls = <<>>
                /\ \/ pc = "start"
                   \/ pc = "failed" /\ thrown.message = <<"NoWorkspaceError">>)
        /\ (answer \notin {"none", "Yes"} =>
                /\ pc = "failed"
                /\ thrown.message = <<"UserCancelledError">>
                /\ cliCalls = <<>>)
        /\ \A i \in DOMAIN cliCalls :
              cliCalls[i].fn = "createFunction" =>
                LET c == cliCalls[i]
                    missing0 == {f \in {HostJson, LocalSettingsJson, LaunchJson} :
                                    <<c.path, f>> \notin fs0}
                IN  /\ \E j \in DOMAIN folders : folders[j] = c.path
                    /\ \/ missing0 = {} /\ i = 1
                       \/ /\ missing0 # {}
                          /\ answer = "Yes"
                          /\ i = 2
                          /\ cliCalls[1].fn = "createFunctionApp"
                          /\ cliCalls[1].path = c.path
                          /\ cliDone >= 1
                    /\ c.template \in Templates
                    /\ c.name \in Names \ {""}
                    /\ <<c.path, c.name>> \notin fs0

\* C8 witness: files were missing, the user answered Yes, the CLI created
\* the function app and then the function.
C8_Witness ==
    /\ cmd = "createFunction"
    /\ pc = "done"
    /\ answer = "Yes"
    /\ Len(cliCalls) = 2
    /\ cliCalls[2].fn = "createFunction"

=============================================================================
